---------------------------- MODULE Spec2Model ----------------------------
(***************************************************************************)
(* Session-scoped optimisation controller of the PyDDSBB demo apps.        *)
(*                                                                         *)
(*   app_pyddsbb_minimize.py : one script run per user interaction; the    *)
(*       session keeps solver / last_cfg / result across runs.             *)
(*   app_pyddsbb.py          : stateless fit app, run_pyddsbb on "Run".    *)
(*                                                                         *)
(* The optimizer library is opaque.  Its calls are recorded in `calls`;    *)
(* optimize / resume / get_optimum may raise (input `fails`); the          *)
(* constructor and Problem.add_variable are plain calls the scripts make   *)
(* unconditionally.  The model covers sessions in which the library        *)
(* import succeeded (otherwise both scripts stop before any of this).      *)
(*                                                                         *)
(* Numbers: domain bounds in tenths, tolerances in 1e-6, minimum_bound in  *)
(* 1e-4, time_limit in tenths of a second.                                 *)
(***************************************************************************)
EXTENDS Integers, Sequences, FiniteSets, TLC

VARIABLES
    app,        \* which of the two scripts this session serves
    solver,     \* st.session_state.solver   : None or Some(handle)
    last_cfg,   \* st.session_state.last_cfg : None or Some(cfg)
    result,     \* st.session_state.result   : None or Some(result)
    next_id,    \* identity the next constructed handle gets (object identity)
    inp,        \* widget values seen by the latest script run (if any: `ran`)
    ran,        \* the script has run at least once in this session
    calls,      \* optimizer-library calls made by the latest script run
    raised      \* the latest script run ended with an uncaught exception

vars == <<app, solver, last_cfg, result, next_id, inp, ran, calls, raised>>

\* Bounds of the model.
MaxHandles == 3
MaxInvocations == 3

\* Python's None / a held value.
None == <<>>
Some(x) == <<x>>

Max(a, b) == IF a >= b THEN a ELSE b

\* round(), Python's: half to even; the argument is given in halves.
Round(halves) ==
    LET q == halves \div 2
    IN  IF halves % 2 = 0 THEN q ELSE IF q % 2 = 0 THEN q ELSE q + 1

---------------------------------------------------------------------------
\* Widget values.

\* stop_option as built by the script from the stopping-criteria widgets.
StopOption(sl, tl) ==
    [absolute_tolerance |-> 1000, relative_tolerance |-> 1000,
     minimum_bound |-> 100, sampling_limit |-> sl, time_limit |-> tl]

\* cfg as built by the script.
Cfg(kind, lo, hi, sl, tl) ==
    [kind |-> kind, x_min |-> lo, x_max |-> hi, seed |-> 42, noise_std |-> 0,
     n_init |-> 12, split_method |-> "equal_bisection",
     variable_selection |-> "longest_side", multifidelity |-> FALSE,
     stop_option |-> StopOption(sl, tl), sense |-> "minimize"]

\* The widget defaults, and settings that differ from them in one widget:
\* another objective, a range slider with both handles on the same value,
\* other sampling limits (typed values need not be multiples of the step),
\* another time limit.
DefaultCfg == Cfg("sin2pix", -10, 10, 800, 200)

Configs ==
    { DefaultCfg,
      Cfg("linear", -10, 10, 800, 200),
      Cfg("sin2pix", 5, 5, 800, 200),
      Cfg("sin2pix", -10, 10, 10, 200),
      Cfg("sin2pix", -10, 10, 201, 200),
      Cfg("sin2pix", -10, 10, 203, 200),
      Cfg("sin2pix", -10, 10, 800, 300) }

Inputs ==
    [cfg : Configs, auto_run : BOOLEAN, run_btn : BOOLEAN, resume_btn : BOOLEAN,
     var_bounds : {<<>>}]

\* app_pyddsbb.py: one (lower, upper) pair of number inputs per parameter of
\* the chosen model family; the families have 4, 3 and 6 parameters.  The
\* defaults are (-2.0, 2.0); the two inputs of a pair are independent, so a
\* pair may be edited to equal or inverted values.
DefaultBound == <<-20, 20>>
EditedBounds == { <<20, 20>>, <<20, -20>> }
ParamCounts == {4, 3, 6}

VarBounds ==
    UNION { { [k \in 1..n |-> DefaultBound] }
            \cup { [k \in 1..n |-> IF k = j THEN b ELSE DefaultBound] :
                       j \in 1..n, b \in EditedBounds } : n \in ParamCounts }

FitInputs ==
    [cfg : {Cfg("sin2pix", -10, 10, 800, 300)}, auto_run : {FALSE},
     run_btn : BOOLEAN, resume_btn : {FALSE}, var_bounds : VarBounds]

---------------------------------------------------------------------------
\* Optimizer library, as the scripts use it.

\* One entry of the call log; ok is FALSE when the call raised.
Call(op, handle, arg, ok) == [op |-> op, handle |-> handle, arg |-> arg, ok |-> ok]

\* Faulty variant of new_solver: the held handle is kept when there is one.
new_solver_Reused(c) ==
    IF solver # None THEN solver[1]
    ELSE [id |-> next_id, built_from |-> c, stop_option |-> c.stop_option,
          invocations |-> 0]

\* PyDDSBB.DDSBB(n_init, split_method=..., stop_option=stop_option, ...):
\* a new object; built_from remembers the widget values it was made from,
\* stop_option the bundle it was most recently given.
new_solver(c) ==
    [id |-> next_id, built_from |-> c, stop_option |-> c.stop_option,
     invocations |-> 0]

\* What get_optimum() / get_optimizer() read back: the incumbent of handle h
\* after its invocations so far.
Optimum(h) == [handle |-> h.id, invocation |-> h.invocations]

\* Faulty variant of extra_sampling: round() instead of int().
extra_sampling_Rounded(sampling_limit) == Round(Max(2 * 100, sampling_limit))

\* extra_sampling = int(max(100, 0.5 * sampling_limit)); computed in halves,
\* int() truncates.
extra_sampling(sampling_limit) == Max(2 * 100, sampling_limit) \div 2

\* new_stop = dict(stop_option); new_stop["sampling_limit"] = ... + extra
new_stop(stop_option, sampling_limit) ==
    [stop_option EXCEPT
        !.sampling_limit = stop_option.sampling_limit + extra_sampling(sampling_limit)]

---------------------------------------------------------------------------
\* The controller of app_pyddsbb_minimize.py.

\* Faulty variant of Decision: Resume without a held handle starts fresh.
Decision_ResumeStartsFresh(i) ==
    IF i.run_btn THEN "run"
    ELSE IF i.auto_run /\ Some(i.cfg) # last_cfg THEN "run"
    ELSE IF i.resume_btn THEN (IF solver # None THEN "resume" ELSE "run")
    ELSE "none"

\* Faulty variant of Decision: the resume branch is tested first.
Decision_ResumeFirst(i) ==
    IF i.resume_btn /\ solver # None THEN "resume"
    ELSE IF i.run_btn THEN "run"
    ELSE IF i.auto_run /\ Some(i.cfg) # last_cfg THEN "run"
    ELSE "none"

\* The if / elif chain: which branch the script takes.
Decision(i) ==
    IF i.run_btn THEN "run"
    ELSE IF i.auto_run /\ Some(i.cfg) # last_cfg THEN "run"
    ELSE IF i.resume_btn /\ solver # None THEN "resume"
    ELSE "none"

\* Faulty variant of RunBlock: last_cfg is stored after optimize returned.
RunBlock_CfgAfterOptimize(i, fails) ==
    LET h == new_solver(i.cfg)
        done == [h EXCEPT !.invocations = 1]
    IN  [solver |-> Some(IF fails THEN h ELSE done),
         last_cfg |-> IF fails THEN last_cfg ELSE Some(i.cfg),
         result |-> IF fails THEN result ELSE Some(Optimum(done)),
         next_id |-> next_id + 1,
         calls |-> << Call("construct", h.id, i.cfg.stop_option, TRUE),
                      Call("optimize", h.id, <<i.cfg.x_min, i.cfg.x_max>>, ~fails) >>,
         raised |-> fails]

\* Faulty variant of RunBlock: an exception of optimize is caught and the
\* result cleared.
RunBlock_Masked(i, fails) ==
    LET h == new_solver(i.cfg)
        done == [h EXCEPT !.invocations = 1]
    IN  [solver |-> Some(IF fails THEN h ELSE done),
         last_cfg |-> Some(i.cfg),
         result |-> IF fails THEN None ELSE Some(Optimum(done)),
         next_id |-> next_id + 1,
         calls |-> << Call("construct", h.id, i.cfg.stop_option, TRUE),
                      Call("optimize", h.id, <<i.cfg.x_min, i.cfg.x_max>>, ~fails) >>,
         raised |-> FALSE]

\* Session and call log after the start-fresh branches and the
\* `if should_run` block.
RunBlock(i, fails) ==
    LET h == new_solver(i.cfg)
        done == [h EXCEPT !.invocations = 1]
    IN  [solver |-> Some(IF fails THEN h ELSE done),
         last_cfg |-> Some(i.cfg),
         result |-> IF fails THEN result ELSE Some(Optimum(done)),
         next_id |-> next_id + 1,
         calls |-> << Call("construct", h.id, i.cfg.stop_option, TRUE),
                      Call("optimize", h.id, <<i.cfg.x_min, i.cfg.x_max>>, ~fails) >>,
         raised |-> fails]

\* Session and call log after the resume branch.
ResumeBlock(i, fails) ==
    LET h == solver[1]
        ns == new_stop(i.cfg.stop_option, i.cfg.stop_option.sampling_limit)
    IN  [solver |-> Some([h EXCEPT !.stop_option = ns,
                                   !.invocations = IF fails THEN @ ELSE @ + 1]),
         last_cfg |-> last_cfg,
         result |-> result,
         next_id |-> next_id,
         calls |-> << Call("resume", h.id, ns, ~fails) >>,
         raised |-> fails]

\* No branch taken.
IdleBlock ==
    [solver |-> solver, last_cfg |-> last_cfg, result |-> result,
     next_id |-> next_id, calls |-> <<>>, raised |-> FALSE]

\* One run of the script.
Script(i, fails) ==
    LET d == Decision(i)
        post == IF d = "run" THEN RunBlock(i, fails)
                ELSE IF d = "resume" THEN ResumeBlock(i, fails)
                ELSE IdleBlock
    IN  /\ app = "minimize"
        /\ d = "run" => next_id <= MaxHandles
        /\ d = "resume" => solver[1].invocations < MaxInvocations
        /\ d = "none" => ~fails
        /\ solver' = post.solver
        /\ last_cfg' = post.last_cfg
        /\ result' = post.result
        /\ next_id' = post.next_id
        /\ calls' = << Call("add_variable", 0, <<i.cfg.x_min, i.cfg.x_max>>, TRUE) >>
                        \o post.calls
        /\ raised' = post.raised
        /\ inp' = i
        /\ ran' = TRUE
        /\ UNCHANGED app

---------------------------------------------------------------------------
\* app_pyddsbb.py.

\* Calls made by run_pyddsbb: add_variable per bound, the constructor, then
\* optimize on the local solver (no session handle: identity 0).
run_pyddsbb(var_bounds, stop_option, fails) ==
    [k \in 1..Len(var_bounds) |-> Call("add_variable", 0, var_bounds[k], TRUE)]
    \o << Call("construct", 0, stop_option, TRUE),
          Call("optimize", 0, var_bounds, ~fails) >>

\* One run of the fit script; it keeps nothing in the session.
FitScript(i, fails) ==
    /\ app = "fit"
    /\ ~i.run_btn => ~fails
    /\ calls' = IF i.run_btn THEN run_pyddsbb(i.var_bounds, i.cfg.stop_option, fails)
                ELSE <<>>
    /\ raised' = fails
    /\ inp' = i
    /\ ran' = TRUE
    /\ UNCHANGED <<app, solver, last_cfg, result, next_id>>

---------------------------------------------------------------------------
Init ==
    /\ app \in {"minimize", "fit"}
    /\ solver = None
    /\ last_cfg = None
    /\ result = None
    /\ next_id = 1
    /\ inp = [cfg |-> DefaultCfg, auto_run |-> FALSE, run_btn |-> FALSE,
              resume_btn |-> FALSE, var_bounds |-> <<>>]
    /\ ran = FALSE
    /\ calls = <<>>
    /\ raised = FALSE

Next ==
    \/ \E i \in Inputs, fails \in BOOLEAN : Script(i, fails)
    \/ \E i \in FitInputs, fails \in BOOLEAN : FitScript(i, fails)

Spec == Init /\ [][Next]_vars

---------------------------------------------------------------------------
\* The resume arithmetic over the whole range of the sampling_limit widget
\* (min_value .. max_value): sessions that start right after a first
\* successful Run with any limit of the range, and in which the user then
\* presses Resume with the widgets untouched.

SamplingLimitMin == 10
SamplingLimitMax == 20000

InitBundle ==
    \E L \in SamplingLimitMin..SamplingLimitMax, tl \in {200, 300} :
        LET c == Cfg("sin2pix", -10, 10, L, tl)
            h == [id |-> 1, built_from |-> c, stop_option |-> c.stop_option,
                  invocations |-> 1]
        IN  /\ app = "minimize"
            /\ solver = Some(h)
            /\ last_cfg = Some(c)
            /\ result = Some(Optimum(h))
            /\ next_id = 2
            /\ inp = [cfg |-> c, auto_run |-> FALSE, run_btn |-> TRUE,
                      resume_btn |-> FALSE, var_bounds |-> <<>>]
            /\ ran = TRUE
            /\ calls = << Call("add_variable", 0, <<c.x_min, c.x_max>>, TRUE),
                          Call("construct", 1, c.stop_option, TRUE),
                          Call("optimize", 1, <<c.x_min, c.x_max>>, TRUE) >>
            /\ raised = FALSE

NextBundle ==
    \E fails \in BOOLEAN :
        Script([inp EXCEPT !.run_btn = FALSE, !.resume_btn = TRUE], fails)

SpecBundle == InitBundle /\ [][NextBundle]_vars

---------------------------------------------------------------------------
\* Vocabulary of the properties.  A step of Script is described by the
\* session before it (unprimed), the widget values it saw (inp') and the
\* session, call log and outcome after it (primed).

\* The optimizer invocations of a call log.
Invocations(log) == SelectSeq(log, LAMBDA c : c.op \in {"optimize", "resume"})

\* The optimizer calls of a call log (constructor included).
OptimizerCalls(log) ==
    SelectSeq(log, LAMBDA c : c.op \in {"construct", "optimize", "resume"})

MinimizeStep == app = "minimize" /\ ran'

\* Run requested, or auto-run enabled and the widgets differ from last_cfg.
StartFreshTrigger ==
    inp'.run_btn \/ (inp'.auto_run /\ Some(inp'.cfg) # last_cfg)

SessionUnchanged ==
    solver' = solver /\ last_cfg' = last_cfg /\ result' = result

\* lower < upper fails for some decision variable of the latest script run.
InvalidDomain(i) ==
    IF app = "minimize" THEN i.cfg.x_min >= i.cfg.x_max
    ELSE \E k \in 1..Len(i.var_bounds) : i.var_bounds[k][1] >= i.var_bounds[k][2]

---------------------------------------------------------------------------
\* C1: whenever Run is requested, or auto-run is enabled and the widgets
\* differ from the stored configuration (none stored included), the script
\* constructs a new handle from the current widgets and holds it instead of
\* the old one, stores the current configuration, makes exactly one optimizer
\* invocation, optimize on the new handle, and, unless that raises, stores
\* the result read back from the new handle in place of the previous one.
C1_StartFresh ==
    [][ (MinimizeStep /\ StartFreshTrigger) =>
          /\ solver' # None
          /\ solver'[1].id = next_id
          /\ solver = None \/ solver'[1].id # solver[1].id
          /\ solver'[1].built_from = inp'.cfg
          /\ solver'[1].stop_option = inp'.cfg.stop_option
          /\ last_cfg' = Some(inp'.cfg)
          /\ Len(Invocations(calls')) = 1
          /\ Invocations(calls')[1].op = "optimize"
          /\ Invocations(calls')[1].handle = solver'[1].id
          /\ \E k \in 1..Len(calls') :
                calls'[k].op = "construct" /\ calls'[k].handle = solver'[1].id
          /\ ~raised' => /\ result' = Some(Optimum(solver'[1]))
                         /\ result' # result
      ]_vars

\* C1 witness: Run pressed with auto-run off and widgets equal to the stored
\* configuration of the earlier run; a second handle holds a fresh result.
C1_Witness ==
    /\ app = "minimize" /\ inp.run_btn /\ ~inp.auto_run /\ ~raised
    /\ solver # None /\ solver[1].id = 2
    /\ result = Some([handle |-> 2, invocation |-> 1])
    /\ last_cfg = Some(inp.cfg)

\* C2 (as claimed): after a Resume that fires and returns normally, the
\* stored result is the one read back from the handle after that resume call.
C2_ResumeStoresResult ==
    [][ ( /\ MinimizeStep /\ ~StartFreshTrigger
          /\ inp'.resume_btn /\ solver # None /\ ~raised' ) =>
          result' = Some(Optimum(solver'[1]))
      ]_vars

\* C3 (as claimed): Resume requested while no handle is held changes nothing
\* in the session and makes no optimizer call.
C3_ResumeNoHandleNoOp ==
    [][ (MinimizeStep /\ inp'.resume_btn /\ solver = None) =>
          SessionUnchanged /\ OptimizerCalls(calls') = <<>>
      ]_vars

\* C3 (amended): Resume requested while no handle is held, Run not requested
\* and auto-run disabled, changes nothing in the session, makes no optimizer
\* call and raises nothing; the result stays absent.
C3_ResumeNoHandleNoOp_Amended ==
    [][ ( /\ MinimizeStep /\ inp'.resume_btn /\ solver = None
          /\ ~inp'.run_btn /\ ~inp'.auto_run ) =>
          /\ SessionUnchanged
          /\ OptimizerCalls(calls') = <<>>
          /\ ~raised'
          /\ result' = None
      ]_vars

\* C3 witness: Resume alone pressed in a session that holds no handle.
C3_Witness ==
    /\ app = "minimize" /\ ran
    /\ inp.resume_btn /\ ~inp.run_btn /\ ~inp.auto_run
    /\ solver = None /\ last_cfg = None /\ result = None

\* C4: a stored result implies a held handle; a configuration is stored
\* exactly when a handle is held, and it is the configuration the held
\* handle was constructed from.
C4_SessionInvariant ==
    /\ result # None => solver # None
    /\ last_cfg # None <=> solver # None
    /\ solver # None => last_cfg = Some(solver[1].built_from)

\* C4 witness: a handle whose optimize raised is held, with its configuration
\* stored and no result.
C4_Witness ==
    /\ app = "minimize" /\ raised
    /\ solver # None /\ solver[1].invocations = 0
    /\ last_cfg = Some(solver[1].built_from) /\ result = None

\* C5 (as claimed): with auto-run disabled, every Resume that fires passes a
\* sampling limit of at least old + 100 when old <= 200 and at least
\* 1.5 * old (within rounding) otherwise, old being the limit the held handle
\* was most recently given.
C5_ResumeNeverReducesBudget ==
    [][ ( /\ MinimizeStep /\ ~inp'.auto_run /\ ~inp'.run_btn
          /\ inp'.resume_btn /\ solver # None ) =>
          LET old == solver[1].stop_option.sampling_limit
              new == Invocations(calls')[1].arg.sampling_limit
          IN  /\ Len(Invocations(calls')) = 1
              /\ IF old <= 200 THEN new >= old + 100
                 ELSE 2 * new >= 3 * old - 1
      ]_vars

\* C6 (as claimed): the bundle passed to resume has sampling_limit
\* L + max(100, round(0.5 * L)) and the other stopping criteria as
\* configured; the stored configuration is not modified.
C6_ExpandedBundle ==
    [][ ( /\ MinimizeStep /\ ~StartFreshTrigger
          /\ inp'.resume_btn /\ solver # None ) =>
          LET L == inp'.cfg.stop_option.sampling_limit
          IN  /\ Len(Invocations(calls')) = 1
              /\ Invocations(calls')[1].arg =
                    [inp'.cfg.stop_option EXCEPT
                        !.sampling_limit = L + Max(100, Round(L))]
              /\ last_cfg' = last_cfg
      ]_vars

\* C6 (amended): the bundle passed to resume has sampling_limit
\* L + max(100, floor(0.5 * L)) (the half is truncated, not rounded) and
\* the other stopping criteria as configured; the stored configuration is not
\* modified.
C6_ExpandedBundle_Amended ==
    [][ ( /\ MinimizeStep /\ ~StartFreshTrigger
          /\ inp'.resume_btn /\ solver # None ) =>
          LET L == inp'.cfg.stop_option.sampling_limit
              half == L \div 2
          IN  /\ Len(Invocations(calls')) = 1
              /\ Invocations(calls')[1].op = "resume"
              /\ Invocations(calls')[1].arg =
                    [inp'.cfg.stop_option EXCEPT
                        !.sampling_limit = L + Max(100, half)]
              /\ last_cfg' = last_cfg
      ]_vars

\* C6 witness: Resume with an odd configured limit above 200 (203): the
\* bundle passed has limit 203 + 101 and the configured time limit.
C6_Witness ==
    /\ app = "minimize" /\ inp.resume_btn
    /\ inp.cfg.stop_option.sampling_limit = 203
    /\ Len(Invocations(calls)) = 1
    /\ Invocations(calls)[1].op = "resume"
    /\ Invocations(calls)[1].arg.sampling_limit = 304
    /\ Invocations(calls)[1].arg.time_limit = inp.cfg.stop_option.time_limit

\* C7: whenever optimize or resume raises, the script run ends with the
\* exception uncaught and the stored result is the one stored before.
C7_FailureNotMasked ==
    [][ ( /\ MinimizeStep
          /\ \E k \in 1..Len(calls') :
                calls'[k].op \in {"optimize", "resume"} /\ ~calls'[k].ok ) =>
          raised' /\ result' = result
      ]_vars

\* C7 witness: a run raised while an earlier handle's result was stored; that
\* result is still stored.
C7_Witness ==
    /\ app = "minimize" /\ raised
    /\ \E k \in 1..Len(calls) : calls[k].op = "optimize" /\ ~calls[k].ok
    /\ result # None

\* C8 (as claimed): when lower < upper fails for some decision variable, the
\* script run fails before any optimizer call: no constructor, optimize or
\* resume call is made and the session is unchanged.
C8_InvalidDomainRejected ==
    [][ (ran' /\ InvalidDomain(inp')) =>
          /\ OptimizerCalls(calls') = <<>>
          /\ SessionUnchanged
      ]_vars

\* C9: a script run makes at most one optimizer invocation; when a
\* start-fresh trigger fires together with Resume the one invocation is the
\* optimize of the new handle and resume is not called; when no trigger fires
\* no optimizer call is made and the session is unchanged.
C9_OneDecision ==
    [][ MinimizeStep =>
          /\ Len(Invocations(calls')) <= 1
          /\ (StartFreshTrigger /\ inp'.resume_btn) =>
                /\ Len(Invocations(calls')) = 1
                /\ Invocations(calls')[1].op = "optimize"
                /\ Invocations(calls')[1].handle = next_id
          /\ ( /\ ~inp'.run_btn /\ ~inp'.resume_btn
               /\ (~inp'.auto_run \/ Some(inp'.cfg) = last_cfg) ) =>
                /\ OptimizerCalls(calls') = <<>>
                /\ SessionUnchanged
      ]_vars

\* C9 witness: Run and Resume pressed together while a handle was held; the
\* only invocation is optimize on the second handle.
C9_Witness ==
    /\ app = "minimize" /\ inp.run_btn /\ inp.resume_btn
    /\ solver # None /\ solver[1].id = 2
    /\ Len(Invocations(calls)) = 1
    /\ Invocations(calls)[1].op = "optimize"
    /\ Invocations(calls)[1].handle = 2

\* C10 (as claimed): a stored result was read back from the currently held
\* handle, which was constructed from the stored configuration.
C10_ResultOfHeldHandle ==
    result # None =>
        /\ solver # None
        /\ result[1].handle = solver[1].id
        /\ last_cfg = Some(solver[1].built_from)

===========================================================================
